---- MODULE Spec2Model ----
(***************************************************************************)
(* Model of biomaths_assistant.py: the BioMax record (constructor and     *)
(* formula methods, category blocks, compute_all) and the numeric prompt  *)
(* _float_input of the interactive CLI.                                   *)
(*                                                                         *)
(* Numbers.  A Python float is modelled by an exact rational (inputs are  *)
(* small integers).  A formula that goes through pow with a fractional    *)
(* exponent, sqrt, log or log10, or whose literal has too many digits for *)
(* exact evaluation, yields a symbolic real: the name of the expression   *)
(* and the numbers it was applied to.  What Python does at the edge of a  *)
(* domain (ZeroDivisionError, ValueError, a complex result of pow) is     *)
(* modelled exactly as CPython 3 does it.                                 *)
(***************************************************************************)
EXTENDS Integers, Sequences, FiniteSets, TLC

VARIABLES sex_arg, self, call, ret, pc, optional, depth, entry

vars == <<sex_arg, self, call, ret, pc, optional, depth, entry>>

(***************************************************************************)
(* Bounds of the model.                                                    *)
(***************************************************************************)
MaxHeight == 2
MaxOpt == 2
MaxSexLen == 2
MaxArg == 1

(***************************************************************************)
(* Optional[float]: None or a supplied number.                             *)
(***************************************************************************)
None == <<>>
Some(v) == <<v>>
Val(x) == x[1]
Truthy(x) == x # None /\ Val(x) # 0

(***************************************************************************)
(* Results of a call: a float (exact rational n/d, d > 0, lowest terms),   *)
(* None, a raised exception, a symbolic real, or a Python complex number.  *)
(***************************************************************************)
Abs(x) == IF x < 0 THEN -x ELSE x

RECURSIVE GCD(_, _)
GCD(a, b) == IF b = 0 THEN a ELSE GCD(b, a % b)

Q(n, d) ==
    LET g == GCD(Abs(n), Abs(d))
        s == IF d < 0 THEN -1 ELSE 1
    IN  [k |-> "num", n |-> (s * n) \div g, d |-> (s * d) \div g, e |-> <<>>]

I(n) == Q(n, 1)
NoneV == [k |-> "none", n |-> 0, d |-> 1, e |-> <<>>]
Raise(exc) == [k |-> "raise", n |-> 0, d |-> 1, e |-> <<exc>>]
Sym(tag, xs) == [k |-> "sym", n |-> 0, d |-> 1, e |-> <<tag>> \o xs]
Complex(tag, xs) == [k |-> "complex", n |-> 0, d |-> 1, e |-> <<tag>> \o xs]

IsNum(v) == v.k = "num"
IsRaise(v) == v.k = "raise"
IsNone(v) == v.k = "none"
\* a result that is a number of some kind (not None, not an exception)
IsValue(v) == v.k \in {"num", "sym", "complex"}

Add(a, b) == Q(a.n * b.d + b.n * a.d, a.d * b.d)
Sub(a, b) == Q(a.n * b.d - b.n * a.d, a.d * b.d)
Mul(a, b) == Q(a.n * b.n, a.d * b.d)
\* float division: ZeroDivisionError on a zero divisor
Div(a, b) == IF b.n = 0 THEN Raise("ZeroDivisionError") ELSE Q(a.n * b.d, a.d * b.n)
Gt(a, b) == a.n * b.d > b.n * a.d
\* an Optional[float] as a result
OfOpt(x) == IF x = None THEN NoneV ELSE I(Val(x))

(***************************************************************************)
(* str.lower() and str.startswith("m") on a string held as a sequence of   *)
(* one-character strings.                                                  *)
(***************************************************************************)
SexChars == {"m", "M", "f"}
LowerChar(c) == IF c = "M" THEN "m" ELSE c
lower(str) == [i \in 1..Len(str) |-> LowerChar(str[i])]
startswith(str, c) == Len(str) >= 1 /\ str[1] = c

(***************************************************************************)
(* BioMax.__init__: every argument is stored as given, sex is lowercased.  *)
(***************************************************************************)
\* the constructor storing the sex string as passed, without lower()
BioMax__init__raw_sex(a) ==
    [weight |-> a.weight_kg, height |-> a.height_m, age |-> a.age_yrs,
     sex |-> a.sex,
     waist |-> a.waist_cm, hip |-> a.hip_cm,
     hr |-> a.hr_bpm, sbp |-> a.sbp, dbp |-> a.dbp,
     hb |-> a.hb, sa_o2 |-> a.sa_o2, pa_o2 |-> a.pa_o2, sv_o2 |-> a.sv_o2,
     pa_co2 |-> a.pa_co2, creatinine |-> a.creatinine_mgdl,
     glucose |-> a.glucose_mgdl, insulin |-> a.insulin_uUml,
     tg |-> a.tg_mgdl, tc |-> a.tc_mgdl, hdl |-> a.hdl_mgdl,
     albumin |-> a.alb_gdl, bun |-> a.bun_mgdl, ethanol |-> a.ethanol_mgdl]

BioMax__init__(a) ==
    [weight |-> a.weight_kg, height |-> a.height_m, age |-> a.age_yrs,
     sex |-> lower(a.sex),
     waist |-> a.waist_cm, hip |-> a.hip_cm,
     hr |-> a.hr_bpm, sbp |-> a.sbp, dbp |-> a.dbp,
     hb |-> a.hb, sa_o2 |-> a.sa_o2, pa_o2 |-> a.pa_o2, sv_o2 |-> a.sv_o2,
     pa_co2 |-> a.pa_co2, creatinine |-> a.creatinine_mgdl,
     glucose |-> a.glucose_mgdl, insulin |-> a.insulin_uUml,
     tg |-> a.tg_mgdl, tc |-> a.tc_mgdl, hdl |-> a.hdl_mgdl,
     albumin |-> a.alb_gdl, bun |-> a.bun_mgdl, ethanol |-> a.ethanol_mgdl]

(***************************************************************************)
(* Units helpers.                                                          *)
(***************************************************************************)
height_cm(s) == Mul(I(s.height), I(100))
height_in(s) == Mul(I(s.height), Q(393700787, 10000000))

(***************************************************************************)
(* Basic anthropometric formulas.                                          *)
(***************************************************************************)
bmi(s) == Div(I(s.weight), I(s.height * s.height))

bmi_prime(s) ==
    LET b == bmi(s)
    IN  IF IsRaise(b) THEN b ELSE Div(b, I(25))

\* ponderal_index reporting a non-positive height as "unavailable"
ponderal_index_unavailable(s) ==
    IF s.height <= 0
    THEN NoneV
    ELSE Div(I(s.weight), I(s.height * s.height * s.height))

ponderal_index(s) ==
    IF s.height <= 0
    THEN Raise("ValueError")
    ELSE Div(I(s.weight), I(s.height * s.height * s.height))

\* 50.0 + 2.3 * (h_in - 60.0), resp. 45.5 + ...: kept symbolic, the literal
\* 39.3700787 leaves no room for the exact product; e = base*10, h_in - 60.
ibw_devine(s) ==
    LET x == Sub(height_in(s), I(60))
    IN  IF startswith(s.sex, "m")
        THEN Sym("base+2.3*(h_in-60.0)", <<500, x.n, x.d>>)
        ELSE Sym("base+2.3*(h_in-60.0)", <<455, x.n, x.d>>)

adjusted_body_weight(s, actual_weight_kg, factor) ==
    IF actual_weight_kg = None
    THEN NoneV
    ELSE LET ibw == ibw_devine(s)
         IN  Sym("ibw+factor*(actual-ibw)",
                 Tail(ibw.e) \o <<factor.n, factor.d, Val(actual_weight_kg)>>)

\* waist_hip_ratio testing "is None" where the code tests truthiness
waist_hip_ratio_is_none(s) ==
    IF s.waist = None \/ s.hip = None
    THEN NoneV
    ELSE Div(I(Val(s.waist)), I(Val(s.hip)))

waist_hip_ratio(s) ==
    IF ~(Truthy(s.waist) /\ Truthy(s.hip))
    THEN NoneV
    ELSE Div(I(Val(s.waist)), I(Val(s.hip)))

waist_height_ratio(s) ==
    IF ~Truthy(s.waist)
    THEN NoneV
    ELSE Div(I(Val(s.waist)), height_cm(s))

\* 0.007184 * weight**0.425 * height_cm**0.725; pow of a negative float to a
\* fractional power is a complex number, pow of 0.0 to a positive power is 0.0
body_surface_area_m2(s) ==
    IF s.weight < 0 \/ s.height < 0
    THEN Complex("bsa", <<s.weight, s.height>>)
    ELSE IF s.weight = 0 \/ s.height = 0
    THEN I(0)
    ELSE Sym("bsa", <<s.weight, s.height>>)

body_adiposity_index(s) ==
    IF ~(Truthy(s.hip) /\ s.height # 0)
    THEN NoneV
    ELSE IF s.height < 0
    THEN Complex("hip/height**1.5-18.0", <<Val(s.hip), s.height>>)
    ELSE Sym("hip/height**1.5-18.0", <<Val(s.hip), s.height>>)

relative_fat_mass(s) ==
    IF ~Truthy(s.waist)
    THEN NoneV
    ELSE LET r == Div(I(s.height * 100), I(Val(s.waist)))
         IN  IF startswith(s.sex, "m")
             THEN Sub(I(64), Mul(I(20), r))
             ELSE Sub(I(76), Mul(I(20), r))

lbm_james(s) ==
    LET h == s.height
        w == s.weight
        q == Div(I(w), I(h))
    IN  IF startswith(s.sex, "m")
        THEN IF IsRaise(q)
             THEN q
             ELSE Sub(Mul(Q(110, 100), I(w)), Mul(I(128), Mul(q, q)))
        ELSE IF IsRaise(q)
             THEN q
             ELSE Sub(Mul(Q(107, 100), I(w)), Mul(I(148), Mul(q, q)))

fat_mass_from_lbm(s, lbm_kg) ==
    LET lbm == IF lbm_kg # None THEN I(Val(lbm_kg)) ELSE lbm_james(s)
    IN  IF IsRaise(lbm) THEN lbm ELSE Sub(I(s.weight), lbm)

(***************************************************************************)
(* Energy & metabolic.                                                     *)
(***************************************************************************)
bmr_mifflin(s) ==
    LET base == Sub(Add(Mul(I(10), I(s.weight)), Mul(Q(625, 100), height_cm(s))),
                    Mul(I(5), I(s.age)))
    IN  Add(base, IF startswith(s.sex, "m") THEN I(5) ELSE I(-161))

bmr_harris_benedict(s) ==
    IF startswith(s.sex, "m")
    THEN Sub(Add(Add(Q(6647, 100), Mul(Q(1375, 100), I(s.weight))),
                 Mul(Q(5003, 1000), height_cm(s))),
             Mul(Q(6755, 1000), I(s.age)))
    ELSE Sub(Add(Add(Q(6551, 10), Mul(Q(9563, 1000), I(s.weight))),
                 Mul(Q(185, 100), height_cm(s))),
             Mul(Q(4676, 1000), I(s.age)))

Max0(v) == IF Gt(I(0), v) THEN I(0) ELSE v

bmr_katch_mcardle(s, lbm_kg) ==
    LET lbm == IF lbm_kg # None
               THEN I(Val(lbm_kg))
               ELSE IF IsRaise(lbm_james(s)) THEN lbm_james(s) ELSE Max0(lbm_james(s))
    IN  IF IsRaise(lbm) THEN lbm ELSE Add(I(370), Mul(Q(216, 10), lbm))

tdee(s, activity_factor) == Mul(bmr_mifflin(s), activity_factor)

(***************************************************************************)
(* Cardio / hemodynamics.                                                  *)
(***************************************************************************)
map(s) ==
    IF s.sbp = None \/ s.dbp = None
    THEN NoneV
    ELSE Div(Add(I(Val(s.sbp)), Mul(I(2), I(Val(s.dbp)))), I(3))

rate_pressure_product(s) ==
    IF s.sbp = None \/ s.hr = None
    THEN NoneV
    ELSE Mul(I(Val(s.sbp)), I(Val(s.hr)))

shock_index(s) ==
    IF s.hr = None \/ s.sbp = None
    THEN NoneV
    ELSE Div(I(Val(s.hr)), I(Val(s.sbp)))

cardiac_index(s, co_l_min) ==
    IF co_l_min = None
    THEN NoneV
    ELSE LET bsa == body_surface_area_m2(s)
         IN  IF bsa.k = "complex"
             THEN Complex("co/bsa", <<Val(co_l_min)>> \o Tail(bsa.e))
             ELSE IF bsa.k = "sym"
             THEN Sym("co/bsa", <<Val(co_l_min)>> \o Tail(bsa.e))
             ELSE Div(I(Val(co_l_min)), bsa)

svr(s, co_l_min, cvp) ==
    IF co_l_min = None \/ IsNone(map(s))
    THEN NoneV
    ELSE Div(Mul(Sub(map(s), I(cvp)), I(80)), I(Val(co_l_min)))

cardiac_output_from_fick(s, vo2_ml_min, cao2_ml_dl, cvo2_ml_dl) ==
    LET a_v_diff == cao2_ml_dl - cvo2_ml_dl
    IN  IF a_v_diff <= 0
        THEN NoneV
        ELSE Div(I(vo2_ml_min), Mul(I(a_v_diff), I(10)))

\* a saturation above 1 is a percentage; the record's sa_o2 / sv_o2 are not read
Frac(x) == IF x # None /\ Val(x) > 1 THEN Q(Val(x), 100) ELSE OfOpt(x)

ca_o2(s, hb_g_dl, sa_o2_frac, pa_o2_mm) ==
    LET hb == IF hb_g_dl # None THEN hb_g_dl ELSE s.hb
        sa == Frac(sa_o2_frac)
        pa == IF pa_o2_mm # None THEN pa_o2_mm ELSE s.pa_o2
    IN  IF hb = None \/ IsNone(sa) \/ pa = None
        THEN NoneV
        ELSE Add(Mul(Mul(Q(134, 100), I(Val(hb))), sa), Mul(Q(31, 10000), I(Val(pa))))

cv_o2(s, hb_g_dl, sv_o2_frac, pv_o2_mm) ==
    LET hb == IF hb_g_dl # None THEN hb_g_dl ELSE s.hb
        sv == Frac(sv_o2_frac)
        pv == pv_o2_mm
    IN  IF hb = None \/ IsNone(sv)
        THEN NoneV
        ELSE LET pv_val == IF pv # None THEN I(Val(pv)) ELSE I(40)
             IN  Add(Mul(Mul(Q(134, 100), I(Val(hb))), sv), Mul(Q(31, 10000), pv_val))

oxygen_delivery(s, co_l_min, ca_o2_ml_dl) ==
    IF co_l_min = None \/ ca_o2_ml_dl = None
    THEN NoneV
    ELSE Mul(Mul(I(Val(co_l_min)), I(Val(ca_o2_ml_dl))), I(10))

(***************************************************************************)
(* Respiratory / gas exchange.                                             *)
(***************************************************************************)
alveolar_gas_eq(s, fio2_frac, pb_mm, ph2o_mm, rq) ==
    IF s.pa_co2 = None
    THEN NoneV
    ELSE LET q == Div(I(Val(s.pa_co2)), rq)
         IN  IF IsRaise(q) THEN q ELSE Sub(Mul(fio2_frac, Sub(pb_mm, ph2o_mm)), q)

DefaultAlveolar(s) == alveolar_gas_eq(s, Q(21, 100), I(760), I(47), Q(8, 10))

a_a_gradient(s, pao2, pao2_measured) ==
    LET pao2_calc == IF pao2 # None THEN I(Val(pao2)) ELSE DefaultAlveolar(s)
    IN  IF IsNone(pao2_calc) \/ pao2_measured = None
        THEN NoneV
        ELSE Sub(pao2_calc, I(Val(pao2_measured)))

oxygenation_index(s, fio2_frac, map_cm_h2o, pao2_mm) ==
    Div(Mul(Mul(fio2_frac, I(map_cm_h2o)), I(100)), I(pao2_mm))

(***************************************************************************)
(* Acid-base / electrolytes.                                               *)
(***************************************************************************)
anion_gap(s, na, k, cl, hco3) ==
    IF k = None
    THEN I(na - (cl + hco3))
    ELSE I((na + Val(k)) - (cl + hco3))

corrected_anion_gap(s, ag, albumin_gdl) ==
    LET alb == IF albumin_gdl # None THEN albumin_gdl ELSE s.albumin
    IN  IF alb = None
        THEN NoneV
        ELSE Add(I(ag), Mul(Q(25, 10), Sub(I(4), I(Val(alb)))))

\* x or 0.0
Or0(x) == IF Truthy(x) THEN I(Val(x)) ELSE I(0)

calculated_osmolality(s, na, glucose_mgdl, bun_mgdl, ethanol_mgdl) ==
    LET g == IF glucose_mgdl # None THEN glucose_mgdl ELSE s.glucose
        b == IF bun_mgdl # None THEN bun_mgdl ELSE s.bun
        e == IF ethanol_mgdl # None THEN I(Val(ethanol_mgdl)) ELSE Or0(s.ethanol)
    IN  Add(Add(Add(Mul(I(2), I(na)), Div(Or0(g), I(18))), Div(Or0(b), Q(28, 10))),
            Div(e, Q(37, 10)))

osmolar_gap(s, measured_osm, na, glucose_mgdl, bun_mgdl, ethanol_mgdl) ==
    LET calc == calculated_osmolality(s, na, glucose_mgdl, bun_mgdl, ethanol_mgdl)
    IN  Sub(I(measured_osm), calc)

(***************************************************************************)
(* Renal function.                                                         *)
(***************************************************************************)
cockcroft_gault(s) ==
    IF s.creatinine = None
    THEN NoneV
    ELSE LET sex_factor == IF startswith(s.sex, "m") THEN I(1) ELSE Q(85, 100)
         IN  Div(Mul(Mul(I(140 - s.age), I(s.weight)), sex_factor),
                 Mul(I(72), I(Val(s.creatinine))))

\* 175.0 * creatinine**-1.154 * age**-0.203 * factor: 0.0 to a negative power
\* raises ZeroDivisionError, a negative base gives a complex number
mdrd_egfr(s) ==
    IF s.creatinine = None
    THEN NoneV
    ELSE LET cr == Val(s.creatinine)
             factor == IF ~startswith(s.sex, "m") THEN 742 ELSE 1000
         IN  IF cr = 0 \/ s.age = 0
             THEN Raise("ZeroDivisionError")
             ELSE IF cr < 0 \/ s.age < 0
             THEN Complex("mdrd", <<cr, s.age, factor>>)
             ELSE Sym("mdrd", <<cr, s.age, factor>>)

(***************************************************************************)
(* Lipids / cardiometabolic indices.                                       *)
(***************************************************************************)
ldl_friedewald(s) ==
    IF s.tc = None \/ s.hdl = None \/ s.tg = None
    THEN NoneV
    ELSE Sub(Sub(I(Val(s.tc)), I(Val(s.hdl))), Q(Val(s.tg), 5))

non_hdl(s) ==
    IF s.tc = None \/ s.hdl = None
    THEN NoneV
    ELSE Sub(I(Val(s.tc)), I(Val(s.hdl)))

atherogenic_index_of_plasma(s) ==
    IF s.tg = None \/ s.hdl = None
    THEN NoneV
    ELSE IF Val(s.tg) <= 0 \/ Val(s.hdl) <= 0
    THEN NoneV
    ELSE LET q == Q(Val(s.tg), Val(s.hdl))
         IN  Sym("log10", <<q.n, q.d>>)

\* math.log raises ValueError on a non-positive argument
tyg_index(s) ==
    IF s.tg = None \/ s.glucose = None
    THEN NoneV
    ELSE LET x == Q(Val(s.tg) * Val(s.glucose), 2)
         IN  IF x.n <= 0
             THEN Raise("ValueError")
             ELSE Sym("ln", <<x.n, x.d>>)

(***************************************************************************)
(* Insulin resistance indices.                                             *)
(***************************************************************************)
homa_ir(s) ==
    IF s.glucose = None \/ s.insulin = None
    THEN NoneV
    ELSE Q(Val(s.glucose) * Val(s.insulin), 405)

\* 1.0 / (log10(insulin) + log10(glucose)): the sum is 0 when
\* insulin * glucose = 1
quicki(s) ==
    IF s.glucose = None \/ s.insulin = None
    THEN NoneV
    ELSE IF Val(s.insulin) <= 0 \/ Val(s.glucose) <= 0
    THEN Raise("ValueError")
    ELSE IF Val(s.insulin) * Val(s.glucose) = 1
    THEN Raise("ZeroDivisionError")
    ELSE Sym("1/(log10+log10)", <<Val(s.insulin), Val(s.glucose)>>)

(***************************************************************************)
(* Pharmacokinetics (basic) and Michaelis-Menten elimination.              *)
(***************************************************************************)
loading_dose(s, target_conc_mg_l, vd_l, f) ==
    Div(Mul(I(target_conc_mg_l), I(vd_l)), I(f))

maintenance_rate(s, cl_l_hr, css_mg_l, f) ==
    Div(Mul(I(cl_l_hr), I(css_mg_l)), I(f))

half_life(s, vd_l, cl_l_hr) ==
    Div(Mul(Q(693, 1000), I(vd_l)), I(cl_l_hr))

michaelis_menten(s, c_mg_l, vmax_mg_hr, km_mg_l) ==
    Div(Mul(I(vmax_mg_hr), I(c_mg_l)), I(km_mg_l + c_mg_l))

(***************************************************************************)
(* dict: a mapping from labels to results (insertion order is not          *)
(* modelled).  A run of assignments out[l] = v leaves each label with the  *)
(* last value assigned to it; res.update(d) adds the entries of d and      *)
(* overwrites the labels res already has.                                  *)
(***************************************************************************)
Entry(l, v) == [l |-> l, v |-> v]
Dict(f) == [k |-> "dict", n |-> 0, d |-> 1, e |-> f]
IsDict(v) == v.k = "dict"
EmptyDict == [l \in {} |-> NoneV]

Assign(stmts) ==
    [l \in {stmts[i].l : i \in 1..Len(stmts)} |->
        stmts[CHOOSE i \in 1..Len(stmts) :
                /\ stmts[i].l = l
                /\ \A j \in (i + 1)..Len(stmts) : stmts[j].l # l].v]

update(res, other) ==
    [l \in DOMAIN res \cup DOMAIN other |-> IF l \in DOMAIN other THEN other[l] ELSE res[l]]

\* the statements out[l] = f() run in order: the first exception leaves the
\* block, otherwise the dict is returned
RunStmts(stmts) ==
    LET bad == {i \in 1..Len(stmts) : IsRaise(stmts[i].v)}
    IN  IF bad # {}
        THEN stmts[CHOOSE i \in bad : \A j \in bad : i <= j].v
        ELSE Dict(Assign(stmts))

\* (the statements are evaluated once, then run)
Block(stmts) == CHOOSE r \in {RunStmts(es) : es \in {stmts}} : TRUE

compute_basic_block(s) ==
    Block(<<Entry("BMI", bmi(s)),
            Entry("BMI Prime", bmi_prime(s)),
            Entry("Ponderal Index", ponderal_index(s)),
            Entry("IBW (Devine kg)", ibw_devine(s)),
            Entry("Adjusted BW (example, if you provide actual)",
                  adjusted_body_weight(s, Some(s.weight), Q(4, 10))),
            Entry("BSA (m^2)", body_surface_area_m2(s)),
            Entry("Waist-Hip Ratio", waist_hip_ratio(s)),
            Entry("Waist-Height Ratio", waist_height_ratio(s)),
            Entry("BAI", body_adiposity_index(s)),
            Entry("RFM", relative_fat_mass(s)),
            Entry("LBM (James)", lbm_james(s)),
            Entry("Fat Mass (kg)", fat_mass_from_lbm(s, None))>>)

compute_energy_block(s) ==
    Block(<<Entry("BMR (Mifflin)", bmr_mifflin(s)),
            Entry("BMR (Harris-Benedict)", bmr_harris_benedict(s)),
            Entry("BMR (Katch-McArdle)", bmr_katch_mcardle(s, None)),
            Entry("TDEE (activity factor 1.55)", tdee(s, Q(155, 100))),
            Entry("Calories for Loss (TDEE-500)", Sub(tdee(s, Q(155, 100)), I(500))),
            Entry("Calories for Gain (TDEE+500)", Add(tdee(s, Q(155, 100)), I(500))),
            Entry("Protein (1.6 g/kg) g/day", Mul(Q(16, 10), I(s.weight))),
            Entry("Water (ml/day 35 ml/kg)", I(35 * s.weight))>>)

\* (waist / 100.0) / (0.109 * math.sqrt(weight / height)) if waist else None
ConicityIndex(s) ==
    IF ~Truthy(s.waist)
    THEN NoneV
    ELSE LET q == Div(I(s.weight), I(s.height))
         IN  IF IsRaise(q)
             THEN q
             ELSE IF q.n < 0
             THEN Raise("ValueError")
             ELSE IF q.n = 0
             THEN Raise("ZeroDivisionError")
             ELSE Sym("conicity", <<Val(s.waist), q.n, q.d>>)

compute_cardio_block(s) ==
    Block(<<Entry("MAP (mmHg)", map(s)),
            Entry("Rate Pressure Product", rate_pressure_product(s)),
            Entry("Shock Index", shock_index(s)),
            Entry("Conicity Index", ConicityIndex(s))>>)

compute_renal_block(s) ==
    Block(<<Entry("Cockcroft-Gault CrCl (mL/min)", cockcroft_gault(s)),
            Entry("MDRD eGFR (mL/min/1.73m^2)", mdrd_egfr(s))>>)

compute_lipid_block(s) ==
    Block(<<Entry("LDL (Friedewald)", ldl_friedewald(s)),
            Entry("Non-HDL", non_hdl(s)),
            Entry("AIP", atherogenic_index_of_plasma(s)),
            Entry("TyG", tyg_index(s))>>)

compute_insulin_ir_block(s) ==
    Block(<<Entry("HOMA-IR", homa_ir(s)),
            Entry("QUICKI", quicki(s))>>)

\* compute_pk_block filing its result under a label of compute_energy_block
compute_pk_block_relabelled(s) ==
    Block(<<Entry("TDEE (activity factor 1.55)", half_life(s, 40, 5))>>)

compute_pk_block(s) ==
    Block(<<Entry("Example half-life for Vd=40L Cl=5L/hr", half_life(s, 40, 5))>>)

\* the seven blocks in the order compute_all calls them
BlocksOf(s) ==
    <<compute_basic_block(s), compute_energy_block(s), compute_cardio_block(s),
      compute_renal_block(s), compute_lipid_block(s), compute_insulin_ir_block(s),
      compute_pk_block(s)>>

\* res = {}; res.update(block) for each block in turn: the first block that
\* raises ends compute_all with its exception
UpdateAll(bs) ==
    LET bad == {i \in 1..Len(bs) : IsRaise(bs[i])}
    IN  IF bad # {}
        THEN bs[CHOOSE i \in bad : \A j \in bad : i <= j]
        ELSE Dict(update(update(update(update(update(update(update(EmptyDict,
                    bs[1].e), bs[2].e), bs[3].e), bs[4].e), bs[5].e), bs[6].e), bs[7].e))

compute_all(s) == CHOOSE r \in {UpdateAll(bs) : bs \in {BlocksOf(s)}} : TRUE

(***************************************************************************)
(* Constructor arguments of the model.  An optional argument is None or a  *)
(* number in -1..MaxOpt; heights are -1..MaxHeight; sex is any string over *)
(* SexChars of length at most MaxSexLen.  A record of the model varies     *)
(*   - the optional arguments one formula divides or takes a logarithm of  *)
(*     (a group of ValueGroups) over all their values, or                  *)
(*   - the optional arguments one formula or override reads (a group of    *)
(*     PresenceGroups) over absent / supplied, or                          *)
(*   - the sex string, or height, age and sex,                             *)
(* with the remaining optional arguments all absent or all supplied.       *)
(***************************************************************************)
OptVals == {None} \cup {Some(v) : v \in -1..MaxOpt}
Fills == {None, Some(MaxOpt + 1)}
Heights == -1..MaxHeight
Weights == {70}
Ages == {0, 30}

RECURSIVE Strings(_)
Strings(n) ==
    IF n = 0
    THEN {<<>>}
    ELSE Strings(n - 1) \cup {Append(w, c) : w \in Strings(n - 1), c \in SexChars}

SexStrings == Strings(MaxSexLen)

OptFields ==
    {"waist_cm", "hip_cm", "hr_bpm", "sbp", "dbp", "hb", "sa_o2", "pa_o2", "sv_o2",
     "pa_co2", "creatinine_mgdl", "glucose_mgdl", "insulin_uUml", "tg_mgdl",
     "tc_mgdl", "hdl_mgdl", "alb_gdl", "bun_mgdl", "ethanol_mgdl"}

ValueGroups ==
    {{"waist_cm", "hip_cm"}, {"hr_bpm", "sbp"}, {"creatinine_mgdl"},
     {"tg_mgdl", "hdl_mgdl"}, {"tg_mgdl", "glucose_mgdl"},
     {"glucose_mgdl", "insulin_uUml"}}

PresenceGroups ==
    {{"hr_bpm", "sbp", "dbp"}, {"tc_mgdl", "hdl_mgdl", "tg_mgdl"},
     {"hb", "sa_o2", "pa_o2", "sv_o2"}, {"glucose_mgdl", "bun_mgdl", "ethanol_mgdl"},
     {"alb_gdl", "pa_co2"}}

MkArgs(w, h, age, sex, f) ==
    [weight_kg |-> w, height_m |-> h, age_yrs |-> age, sex |-> sex,
     waist_cm |-> f["waist_cm"], hip_cm |-> f["hip_cm"], hr_bpm |-> f["hr_bpm"],
     sbp |-> f["sbp"], dbp |-> f["dbp"], hb |-> f["hb"], sa_o2 |-> f["sa_o2"],
     pa_o2 |-> f["pa_o2"], sv_o2 |-> f["sv_o2"], pa_co2 |-> f["pa_co2"],
     creatinine_mgdl |-> f["creatinine_mgdl"], glucose_mgdl |-> f["glucose_mgdl"],
     insulin_uUml |-> f["insulin_uUml"], tg_mgdl |-> f["tg_mgdl"],
     tc_mgdl |-> f["tc_mgdl"], hdl_mgdl |-> f["hdl_mgdl"], alb_gdl |-> f["alb_gdl"],
     bun_mgdl |-> f["bun_mgdl"], ethanol_mgdl |-> f["ethanol_mgdl"]]

BaseSex == <<"m">>
BaseAge == CHOOSE a \in Ages : a > 0
Only(g, f) == [x \in OptFields |-> IF x \in g THEN f[x] ELSE None]
All(fill) == [x \in OptFields |-> fill]

\* the numeric prompt is not running
Idle ==
    /\ optional = FALSE
    /\ depth = 0
    /\ entry = <<>>

\* the state after BioMax(**a); sex_arg remembers the sex string as passed
Constructed(a) ==
    /\ self = BioMax__init__(a)
    /\ sex_arg = a.sex
    /\ call = [m |-> "__init__", a |-> <<>>]
    /\ ret = NoneV
    /\ pc = "ready"
    /\ Idle

Init ==
    \/ \E w \in Weights, g \in ValueGroups :
         \E f \in [g -> OptVals] :
            Constructed(MkArgs(w, MaxHeight, BaseAge, BaseSex, Only(g, f)))
    \/ \E w \in Weights, g \in PresenceGroups :
         \E f \in [g -> Fills] :
            Constructed(MkArgs(w, MaxHeight, BaseAge, BaseSex, Only(g, f)))
    \/ \E w \in Weights, sex \in SexStrings :
         Constructed(MkArgs(w, MaxHeight, BaseAge, sex, All(Some(MaxOpt + 1))))
    \/ \E w \in Weights, h \in Heights, age \in Ages, sex \in {<<"m">>, <<"f">>},
          fill \in Fills :
         Constructed(MkArgs(w, h, age, sex, All(fill)))

(***************************************************************************)
(* Calls.  The caller picks a method and its arguments (Invoke); the       *)
(* method's action computes the result and returns.  No method assigns to  *)
(* a field of self.                                                        *)
(***************************************************************************)
ArgInts == -1..MaxArg
OptOf(S) == {None} \cup {Some(v) : v \in S}

NoArgMethods ==
    {"height_cm", "height_in", "bmi",
     "bmi_prime", "ponderal_index", "ibw_devine",
     "waist_hip_ratio", "waist_height_ratio", "body_surface_area_m2",
     "body_adiposity_index", "relative_fat_mass", "lbm_james",
     "bmr_mifflin", "bmr_harris_benedict", "map",
     "rate_pressure_product", "shock_index", "cockcroft_gault",
     "mdrd_egfr", "ldl_friedewald", "non_hdl",
     "atherogenic_index_of_plasma", "tyg_index", "homa_ir",
     "quicki", "compute_basic_block", "compute_energy_block",
     "compute_cardio_block", "compute_renal_block", "compute_lipid_block",
     "compute_insulin_ir_block", "compute_pk_block", "compute_all"}

Invoke ==
    /\ pc = "ready"
    /\ \/ \E name \in NoArgMethods : call' = [m |-> name, a |-> <<>>]
       \/ \E actual \in OptOf({80}), factor \in {Q(4, 10)} :
            call' = [m |-> "adjusted_body_weight", a |-> <<actual, factor>>]
       \/ \E lbm_kg \in OptOf({50}) :
            call' = [m |-> "fat_mass_from_lbm", a |-> <<lbm_kg>>]
       \/ \E lbm_kg \in OptOf({50}) :
            call' = [m |-> "bmr_katch_mcardle", a |-> <<lbm_kg>>]
       \/ \E activity_factor \in {Q(155, 100), Q(12, 10)} :
            call' = [m |-> "tdee", a |-> <<activity_factor>>]
       \/ \E co \in OptOf({0, 5}) :
            call' = [m |-> "cardiac_index", a |-> <<co>>]
       \/ \E co \in OptOf({0, 5}), cvp \in {0} :
            call' = [m |-> "svr", a |-> <<co, cvp>>]
       \/ \E vo2 \in {250}, cao2 \in {20}, cvo2 \in {15, 20} :
            call' = [m |-> "cardiac_output_from_fick", a |-> <<vo2, cao2, cvo2>>]
       \/ \E hb \in OptOf({15}), sa \in OptOf({1, 98}), pa \in OptOf({90}) :
            call' = [m |-> "ca_o2", a |-> <<hb, sa, pa>>]
       \/ \E hb \in OptOf({15}), sv \in OptOf({1, 75}), pv \in OptOf({35}) :
            call' = [m |-> "cv_o2", a |-> <<hb, sv, pv>>]
       \/ \E co \in OptOf({5}), ca \in OptOf({20}) :
            call' = [m |-> "oxygen_delivery", a |-> <<co, ca>>]
       \/ \E fio2 \in {Q(21, 100)}, pb \in {I(760)}, ph2o \in {I(47)}, rq \in {Q(8, 10), I(0)} :
            call' = [m |-> "alveolar_gas_eq", a |-> <<fio2, pb, ph2o, rq>>]
       \/ \E pao2 \in OptOf({100}), measured \in OptOf({90}) :
            call' = [m |-> "a_a_gradient", a |-> <<pao2, measured>>]
       \/ \E fio2 \in {Q(21, 100)}, map_cm \in {15}, pao2 \in {0, 60} :
            call' = [m |-> "oxygenation_index", a |-> <<fio2, map_cm, pao2>>]
       \/ \E na \in {140}, potassium \in OptOf({4}), cl \in {100}, hco3 \in {24} :
            call' = [m |-> "anion_gap", a |-> <<na, potassium, cl, hco3>>]
       \/ \E ag \in {12}, alb \in OptOf({2}) :
            call' = [m |-> "corrected_anion_gap", a |-> <<ag, alb>>]
       \/ \E na \in {140}, g \in OptOf({0, 90}), b \in OptOf({14}), eth \in OptOf({0, 37}) :
            call' = [m |-> "calculated_osmolality", a |-> <<na, g, b, eth>>]
       \/ \E osm \in {290}, na \in {140}, g \in OptOf({0, 90}), b \in OptOf({14}), eth \in OptOf({0}) :
            call' = [m |-> "osmolar_gap", a |-> <<osm, na, g, b, eth>>]
       \/ \E target \in {3}, vd \in {40}, f \in ArgInts \cup {MaxArg + 1} :
            call' = [m |-> "loading_dose", a |-> <<target, vd, f>>]
       \/ \E cl \in {5}, css \in {3}, f \in ArgInts \cup {MaxArg + 1} :
            call' = [m |-> "maintenance_rate", a |-> <<cl, css, f>>]
       \/ \E vd \in {40}, cl \in ArgInts \cup {5} :
            call' = [m |-> "half_life", a |-> <<vd, cl>>]
       \/ \E c \in ArgInts, vmax \in {10}, km \in ArgInts :
            call' = [m |-> "michaelis_menten", a |-> <<c, vmax, km>>]
    /\ ret' = NoneV
    /\ pc' = "calling"
    /\ UNCHANGED <<sex_arg, self, optional, depth, entry>>

Returns(method, result) ==
    /\ pc = "calling"
    /\ call.m = method
    /\ ret' = result
    /\ pc' = "ready"
    /\ UNCHANGED <<sex_arg, self, call, optional, depth, entry>>

call_height_cm == Returns("height_cm", height_cm(self))
call_height_in == Returns("height_in", height_in(self))
call_bmi == Returns("bmi", bmi(self))
call_bmi_prime == Returns("bmi_prime", bmi_prime(self))
call_ponderal_index == Returns("ponderal_index", ponderal_index(self))
call_ibw_devine == Returns("ibw_devine", ibw_devine(self))
call_waist_hip_ratio == Returns("waist_hip_ratio", waist_hip_ratio(self))
call_waist_height_ratio == Returns("waist_height_ratio", waist_height_ratio(self))
call_body_surface_area_m2 == Returns("body_surface_area_m2", body_surface_area_m2(self))
call_body_adiposity_index == Returns("body_adiposity_index", body_adiposity_index(self))
call_relative_fat_mass == Returns("relative_fat_mass", relative_fat_mass(self))
call_lbm_james == Returns("lbm_james", lbm_james(self))
call_bmr_mifflin == Returns("bmr_mifflin", bmr_mifflin(self))
call_bmr_harris_benedict == Returns("bmr_harris_benedict", bmr_harris_benedict(self))
call_map == Returns("map", map(self))
call_rate_pressure_product ==
    Returns("rate_pressure_product", rate_pressure_product(self))
call_shock_index == Returns("shock_index", shock_index(self))
call_cockcroft_gault == Returns("cockcroft_gault", cockcroft_gault(self))
\* mdrd_egfr writing a default creatinine of 1 into the record before it computes
call_mdrd_egfr_defaulting ==
    /\ pc = "calling"
    /\ call.m = "mdrd_egfr"
    /\ self' = [self EXCEPT !.creatinine = IF Truthy(@) THEN @ ELSE Some(1)]
    /\ ret' = mdrd_egfr(self')
    /\ pc' = "ready"
    /\ UNCHANGED <<sex_arg, call, optional, depth, entry>>

call_mdrd_egfr == Returns("mdrd_egfr", mdrd_egfr(self))
call_ldl_friedewald == Returns("ldl_friedewald", ldl_friedewald(self))
call_non_hdl == Returns("non_hdl", non_hdl(self))
call_atherogenic_index_of_plasma ==
    Returns("atherogenic_index_of_plasma", atherogenic_index_of_plasma(self))
call_tyg_index == Returns("tyg_index", tyg_index(self))
call_homa_ir == Returns("homa_ir", homa_ir(self))
call_quicki == Returns("quicki", quicki(self))
call_compute_basic_block == Returns("compute_basic_block", compute_basic_block(self))
call_compute_energy_block == Returns("compute_energy_block", compute_energy_block(self))
call_compute_cardio_block == Returns("compute_cardio_block", compute_cardio_block(self))
call_compute_renal_block == Returns("compute_renal_block", compute_renal_block(self))
call_compute_lipid_block == Returns("compute_lipid_block", compute_lipid_block(self))
call_compute_insulin_ir_block ==
    Returns("compute_insulin_ir_block", compute_insulin_ir_block(self))
call_compute_pk_block == Returns("compute_pk_block", compute_pk_block(self))
call_compute_all == Returns("compute_all", compute_all(self))
call_adjusted_body_weight ==
    Returns("adjusted_body_weight", adjusted_body_weight(self, call.a[1], call.a[2]))
call_fat_mass_from_lbm ==
    Returns("fat_mass_from_lbm", fat_mass_from_lbm(self, call.a[1]))
call_bmr_katch_mcardle ==
    Returns("bmr_katch_mcardle", bmr_katch_mcardle(self, call.a[1]))
call_tdee ==
    Returns("tdee", tdee(self, call.a[1]))
call_cardiac_index ==
    Returns("cardiac_index", cardiac_index(self, call.a[1]))
call_svr ==
    Returns("svr", svr(self, call.a[1], call.a[2]))
call_cardiac_output_from_fick ==
    Returns("cardiac_output_from_fick", cardiac_output_from_fick(self, call.a[1], call.a[2], call.a[3]))
call_ca_o2 ==
    Returns("ca_o2", ca_o2(self, call.a[1], call.a[2], call.a[3]))
call_cv_o2 ==
    Returns("cv_o2", cv_o2(self, call.a[1], call.a[2], call.a[3]))
call_oxygen_delivery ==
    Returns("oxygen_delivery", oxygen_delivery(self, call.a[1], call.a[2]))
call_alveolar_gas_eq ==
    Returns("alveolar_gas_eq", alveolar_gas_eq(self, call.a[1], call.a[2], call.a[3], call.a[4]))
call_a_a_gradient ==
    Returns("a_a_gradient", a_a_gradient(self, call.a[1], call.a[2]))
call_oxygenation_index ==
    Returns("oxygenation_index", oxygenation_index(self, call.a[1], call.a[2], call.a[3]))
call_anion_gap ==
    Returns("anion_gap", anion_gap(self, call.a[1], call.a[2], call.a[3], call.a[4]))
call_corrected_anion_gap ==
    Returns("corrected_anion_gap", corrected_anion_gap(self, call.a[1], call.a[2]))
call_calculated_osmolality ==
    Returns("calculated_osmolality", calculated_osmolality(self, call.a[1], call.a[2], call.a[3], call.a[4]))
call_osmolar_gap ==
    Returns("osmolar_gap", osmolar_gap(self, call.a[1], call.a[2], call.a[3], call.a[4], call.a[5]))
call_loading_dose ==
    Returns("loading_dose", loading_dose(self, call.a[1], call.a[2], call.a[3]))
call_maintenance_rate ==
    Returns("maintenance_rate", maintenance_rate(self, call.a[1], call.a[2], call.a[3]))
call_half_life ==
    Returns("half_life", half_life(self, call.a[1], call.a[2]))
call_michaelis_menten ==
    Returns("michaelis_menten", michaelis_menten(self, call.a[1], call.a[2], call.a[3]))

Next ==
    \/ Invoke
    \/ call_height_cm \/ call_height_in \/ call_bmi
    \/ call_bmi_prime \/ call_ponderal_index \/ call_ibw_devine
    \/ call_waist_hip_ratio \/ call_waist_height_ratio \/ call_body_surface_area_m2
    \/ call_body_adiposity_index \/ call_relative_fat_mass \/ call_lbm_james
    \/ call_bmr_mifflin \/ call_bmr_harris_benedict \/ call_map
    \/ call_rate_pressure_product \/ call_shock_index \/ call_cockcroft_gault
    \/ call_mdrd_egfr \/ call_ldl_friedewald \/ call_non_hdl
    \/ call_atherogenic_index_of_plasma \/ call_tyg_index \/ call_homa_ir
    \/ call_quicki \/ call_compute_basic_block \/ call_compute_energy_block
    \/ call_compute_cardio_block \/ call_compute_renal_block \/ call_compute_lipid_block
    \/ call_compute_insulin_ir_block \/ call_compute_pk_block \/ call_compute_all
    \/ call_adjusted_body_weight \/ call_fat_mass_from_lbm \/ call_bmr_katch_mcardle
    \/ call_tdee \/ call_cardiac_index \/ call_svr
    \/ call_cardiac_output_from_fick \/ call_ca_o2 \/ call_cv_o2
    \/ call_oxygen_delivery \/ call_alveolar_gas_eq \/ call_a_a_gradient
    \/ call_oxygenation_index \/ call_anion_gap \/ call_corrected_anion_gap
    \/ call_calculated_osmolality \/ call_osmolar_gap \/ call_loading_dose
    \/ call_maintenance_rate \/ call_half_life \/ call_michaelis_menten

Spec == Init /\ [][Next]_vars

(***************************************************************************)
(* Properties of the library.  Done(m) holds in the state right after a    *)
(* call of method m has returned; ret is what it returned or raised.       *)
(***************************************************************************)
Done(m) == pc = "ready" /\ call.m = m

BlockMethods ==
    {"compute_basic_block", "compute_energy_block", "compute_cardio_block",
     "compute_renal_block", "compute_lipid_block", "compute_insulin_ir_block",
     "compute_pk_block", "compute_all"}

RequiredValid == self.weight > 0 /\ self.height > 0 /\ self.age > 0

\* C1: on a record whose required fields are valid, every category block and
\* compute_all return a label-to-result mapping and never raise.
C1_BlocksNeverRaise ==
    (pc = "ready" /\ call.m \in BlockMethods /\ RequiredValid) => IsDict(ret)

\* C2: with height <= 0 ponderal_index raises (it returns neither a number nor
\* None) and compute_basic_block and compute_all raise instead of returning a
\* mapping; with height > 0 ponderal_index returns weight / height^3.
C2_PonderalIndex ==
    /\ Done("ponderal_index") =>
         IF self.height <= 0
         THEN IsRaise(ret)
         ELSE /\ IsNum(ret)
              /\ ret.n * (self.height * self.height * self.height) = self.weight * ret.d
    /\ ((Done("compute_basic_block") \/ Done("compute_all")) /\ self.height <= 0) =>
         IsRaise(ret)

\* a negative height passes bmi and is stopped by ponderal_index's ValueError
C2_Witness ==
    /\ Done("compute_basic_block")
    /\ self.height < 0
    /\ ret = Raise("ValueError")

\* C3: when the seven blocks succeed, compute_all is their union: the blocks'
\* label sets are pairwise disjoint, every label carries the value its own block
\* computed, and the number of entries is the sum of the block sizes.
C3_UnionOfBlocks ==
    Done("compute_all") =>
        \A bs \in {BlocksOf(self)} :
            (\A i \in 1..7 : IsDict(bs[i])) =>
                /\ IsDict(ret)
                /\ DOMAIN ret.e = UNION {DOMAIN bs[i].e : i \in 1..7}
                /\ \A i, j \in 1..7 : i # j => DOMAIN bs[i].e \cap DOMAIN bs[j].e = {}
                /\ \A i \in 1..7 : \A l \in DOMAIN bs[i].e : ret.e[l] = bs[i].e[l]
                /\ Cardinality(DOMAIN ret.e) =
                     Cardinality(DOMAIN bs[1].e) + Cardinality(DOMAIN bs[2].e)
                     + Cardinality(DOMAIN bs[3].e) + Cardinality(DOMAIN bs[4].e)
                     + Cardinality(DOMAIN bs[5].e) + Cardinality(DOMAIN bs[6].e)
                     + Cardinality(DOMAIN bs[7].e)

C3_Witness ==
    /\ Done("compute_all")
    /\ IsDict(ret)
    /\ Cardinality(DOMAIN ret.e) = 33
    /\ IsValue(ret.e["QUICKI"])
    /\ IsValue(ret.e["Shock Index"])

\* an operand is missing when neither the override argument nor the record has it
Missing(override, field) == override = None /\ field = None

\* C4: ca_o2 returns a number exactly when hemoglobin, arterial saturation and
\* PaO2 are each available from the override argument or from the record
\* (fields hb, sa_o2, pa_o2), and is None otherwise; cv_o2 likewise for
\* hemoglobin and venous saturation (fields hb, sv_o2).
C4_TwoStageResolution ==
    /\ Done("ca_o2") =>
         IF \/ Missing(call.a[1], self.hb)
            \/ Missing(call.a[2], self.sa_o2)
            \/ Missing(call.a[3], self.pa_o2)
         THEN IsNone(ret)
         ELSE IsValue(ret)
    /\ Done("cv_o2") =>
         IF Missing(call.a[1], self.hb) \/ Missing(call.a[2], self.sv_o2)
         THEN IsNone(ret)
         ELSE IsValue(ret)

\* C5: calculated_osmolality and osmolar_gap return None whenever glucose or BUN
\* is missing from both the override argument and the record, and a number only
\* when both are present.
C5_OsmolalityUnavailable ==
    /\ Done("calculated_osmolality") =>
         IF Missing(call.a[2], self.glucose) \/ Missing(call.a[3], self.bun)
         THEN IsNone(ret)
         ELSE IsValue(ret)
    /\ Done("osmolar_gap") =>
         IF Missing(call.a[3], self.glucose) \/ Missing(call.a[4], self.bun)
         THEN IsNone(ret)
         ELSE IsValue(ret)

\* C6: half_life raises for every Cl <= 0, loading_dose and maintenance_rate for
\* every F <= 0, michaelis_menten for every Km + C <= 0; for positive
\* denominators they return 0.693*Vd/Cl, target*Vd/F, Cl*Css/F, Vmax*C/(Km+C).
C6_PKDomainErrors ==
    /\ Done("half_life") =>
         IF call.a[2] <= 0
         THEN IsRaise(ret)
         ELSE IsNum(ret) /\ ret.n * (1000 * call.a[2]) = 693 * call.a[1] * ret.d
    /\ Done("loading_dose") =>
         IF call.a[3] <= 0
         THEN IsRaise(ret)
         ELSE IsNum(ret) /\ ret.n * call.a[3] = call.a[1] * call.a[2] * ret.d
    /\ Done("maintenance_rate") =>
         IF call.a[3] <= 0
         THEN IsRaise(ret)
         ELSE IsNum(ret) /\ ret.n * call.a[3] = call.a[1] * call.a[2] * ret.d
    /\ Done("michaelis_menten") =>
         IF call.a[3] + call.a[1] <= 0
         THEN IsRaise(ret)
         ELSE IsNum(ret) /\ ret.n * (call.a[3] + call.a[1]) = call.a[2] * call.a[1] * ret.d

\* waist_hip_ratio is None exactly when waist or hip is absent or 0, and is
\* waist / hip otherwise
WaistHipRatioAsStated ==
    Done("waist_hip_ratio") =>
        IF ~Truthy(self.waist) \/ ~Truthy(self.hip)
        THEN IsNone(ret)
        ELSE IsNum(ret) /\ ret.n * Val(self.hip) = Val(self.waist) * ret.d

\* C7 as stated: for every record, waist_hip_ratio as above, and
\* waist_height_ratio is None exactly when waist is absent or 0 and is
\* waist / height_cm otherwise.
C7_AsStated ==
    /\ WaistHipRatioAsStated
    /\ Done("waist_height_ratio") =>
         IF ~Truthy(self.waist)
         THEN IsNone(ret)
         ELSE IsNum(ret) /\ ret.n * (self.height * 100) = Val(self.waist) * ret.d

\* C7, amended: as stated for every record whose height is not 0; with height 0
\* and a non-zero waist, waist_height_ratio raises ZeroDivisionError.  A value
\* of 0 is treated as absent, a negative value as supplied.
C7_TruthyWaistHip ==
    /\ WaistHipRatioAsStated
    /\ Done("waist_height_ratio") =>
         IF ~Truthy(self.waist)
         THEN IsNone(ret)
         ELSE IF self.height = 0
         THEN ret = Raise("ZeroDivisionError")
         ELSE IsNum(ret) /\ ret.n * (self.height * 100) = Val(self.waist) * ret.d

\* a negative waist counts as supplied, a hip of 0 as absent
C7_Witness ==
    /\ Done("waist_hip_ratio")
    /\ self.waist = Some(-1)
    /\ self.hip = Some(0)
    /\ IsNone(ret)

SexFormulas ==
    {"ibw_devine", "relative_fat_mass", "lbm_james", "bmr_mifflin",
     "bmr_harris_benedict", "cockcroft_gault", "mdrd_egfr"}

SexFormula(name, s) ==
    CASE name = "ibw_devine" -> ibw_devine(s)
      [] name = "relative_fat_mass" -> relative_fat_mass(s)
      [] name = "lbm_james" -> lbm_james(s)
      [] name = "bmr_mifflin" -> bmr_mifflin(s)
      [] name = "bmr_harris_benedict" -> bmr_harris_benedict(s)
      [] name = "cockcroft_gault" -> cockcroft_gault(s)
      [] name = "mdrd_egfr" -> mdrd_egfr(s)

\* the sex string passed to the constructor starts with "m" or "M"
StartsWithM == Len(sex_arg) >= 1 /\ sex_arg[1] \in {"m", "M"}

Male == <<"m", "a", "l", "e">>
Female == <<"f", "e", "m", "a", "l", "e">>
WithSex(s, sex) == [s EXCEPT !.sex = sex]

\* C8: each of the seven sex-dependent formulas returns what it returns for the
\* same record with sex "male" if the constructor's sex string starts with "m"
\* in either case, and what it returns for sex "female" for every other string,
\* the empty one included; the two branches give different values.
C8_SexPrefixMatch ==
    (pc = "ready" /\ call.m \in SexFormulas) =>
        /\ ret = SexFormula(call.m, WithSex(self, IF StartsWithM THEN Male ELSE Female))
        /\ IsValue(ret) =>
             ret # SexFormula(call.m, WithSex(self, IF StartsWithM THEN Female ELSE Male))

\* an upper-case "M" followed by "f" takes the male branch of mdrd_egfr
C8_Witness ==
    /\ Done("mdrd_egfr")
    /\ sex_arg = <<"M", "f">>
    /\ IsValue(ret)
    /\ ret = mdrd_egfr(WithSex(self, Male))

\* C9: no step of any method changes a field of the record.
C9_RecordUnchanged == [][self' = self]_vars

\* compute_all has run and the record still holds the constructor's values
C9_Witness ==
    /\ Done("compute_all")
    /\ IsDict(ret)
    /\ self.sex = lower(sex_arg)
    /\ self.waist = Some(MaxOpt + 1)

(***************************************************************************)
(* The numeric prompt _float_input(prompt, optional), as main calls it.    *)
(* A line of input is a string over EntryChars of length at most           *)
(* MaxEntryLen.  Each invalid line makes _float_input call itself, so      *)
(* depth counts its frames on the interpreter's stack, on top of the       *)
(* frames of the module and of main.                                       *)
(***************************************************************************)
MaxEntryLen == 2
EntryChars == {" ", "1", ".", "x"}

RECURSIVE Lines(_)
Lines(n) ==
    IF n = 0
    THEN {<<>>}
    ELSE Lines(n - 1) \cup {Append(w, c) : w \in Lines(n - 1), c \in EntryChars}

Entries == Lines(MaxEntryLen)

\* str.strip(): the string without its leading and trailing blanks
strip(str) ==
    LET inked == {i \in 1..Len(str) : str[i] # " "}
    IN  IF inked = {}
        THEN <<>>
        ELSE SubSeq(str, CHOOSE i \in inked : \A j \in inked : i <= j,
                         CHOOSE i \in inked : \A j \in inked : j <= i)

\* the strings over EntryChars that float() accepts: digits with at most one
\* point among them and at least one digit
ParsesAsFloat(val) ==
    /\ \A i \in 1..Len(val) : val[i] \in {"1", "."}
    /\ Cardinality({i \in 1..Len(val) : val[i] = "."}) <= 1
    /\ \E i \in 1..Len(val) : val[i] = "1"

RECURSIVE Pow10(_)
Pow10(n) == IF n = 0 THEN 1 ELSE 10 * Pow10(n - 1)

\* the integer a string of digits "1" denotes
RECURSIVE Repunit(_)
Repunit(n) == IF n = 0 THEN 0 ELSE 10 * Repunit(n - 1) + 1

\* float(val) of a string that parses
float(val) ==
    LET points == {i \in 1..Len(val) : val[i] = "."}
        digits == Len(val) - Cardinality(points)
        decimals == IF points = {} THEN 0 ELSE Len(val) - (CHOOSE i \in points : TRUE)
    IN  Q(Repunit(digits), Pow10(decimals))

\* CPython's default recursion limit, and the frames below the first
\* _float_input frame (the module's and main's)
RecursionLimit == 1000
OuterFrames == 2

\* main calls _float_input(prompt) or _float_input(prompt, optional=True)
PromptInit ==
    /\ self = BioMax__init__(MkArgs(CHOOSE w \in Weights : TRUE, MaxHeight, BaseAge,
                                    BaseSex, All(None)))
    /\ sex_arg = BaseSex
    /\ call = [m |-> "_float_input", a |-> <<>>]
    /\ ret = NoneV
    /\ pc = "prompting"
    /\ optional \in BOOLEAN
    /\ depth = 1
    /\ entry = <<>>

\* one activation of _float_input: read a line, strip it, then return None,
\* return the float, or print the complaint and call itself; the call fails
\* with RecursionError when the stack is full
float_input ==
    /\ pc = "prompting"
    /\ \E line \in Entries :
         /\ entry' = line
         /\ \A val \in {strip(line)} :
              IF val = <<>> /\ optional
              THEN ret' = NoneV /\ pc' = "returned" /\ depth' = 0
              ELSE IF ParsesAsFloat(val)
              THEN ret' = float(val) /\ pc' = "returned" /\ depth' = 0
              ELSE IF OuterFrames + depth + 1 < RecursionLimit
              THEN ret' = NoneV /\ pc' = "prompting" /\ depth' = depth + 1
              ELSE ret' = Raise("RecursionError") /\ pc' = "raised" /\ depth' = 0
    /\ UNCHANGED <<sex_arg, self, call, optional>>

PromptNext == float_input

PromptSpec == PromptInit /\ [][PromptNext]_vars

\* C10: the prompt ends only by returning; it returns None only for a blank
\* line on an optional field, and otherwise the float of the line just read,
\* which parses; every other line is followed by another prompt.
C10_PromptReturnsOnlyValid ==
    /\ pc \in {"prompting", "returned"}
    /\ pc = "returned" =>
         \A val \in {strip(entry)} :
            IF val = <<>> /\ optional
            THEN ret = NoneV
            ELSE ParsesAsFloat(val) /\ ret = float(val)

(***************************************************************************)
(* The interactive session main().  Its steps: the three required numeric  *)
(* prompts, the sex prompt, the optional numeric prompts, BioMax(...), the *)
(* category prompt, the chosen block and the results loop.  A numeric      *)
(* prompt is taken by its outcome: the number (or None) _float_input       *)
(* returns, or its RecursionError.  main's locals are kept in call.a until *)
(* the record is built; entry is the line answered to the sex prompt.      *)
(***************************************************************************)
AnswerChars == SexChars \cup {" "}

RECURSIVE Answers(_)
Answers(n) ==
    IF n = 0
    THEN {<<>>}
    ELSE Answers(n - 1) \cup {Append(w, c) : w \in Answers(n - 1), c \in AnswerChars}

\* input("Sex (male/female): ").strip().lower() or "male", without the "or"
sex_answer_as_typed(line) == lower(strip(line))

\* input("Sex (male/female): ").strip().lower() or "male"
sex_answer(line) ==
    IF lower(strip(line)) = <<>> THEN Male ELSE lower(strip(line))

\* input("Enter choice (1-8): ").strip() or "8", and the method the if-chain calls
chosen_block(line) ==
    LET choice == IF strip(line) = <<>> THEN <<"8">> ELSE strip(line)
    IN  CASE choice = <<"1">> -> "compute_basic_block"
          [] choice = <<"2">> -> "compute_energy_block"
          [] choice = <<"3">> -> "compute_cardio_block"
          [] choice = <<"4">> -> "compute_renal_block"
          [] choice = <<"5">> -> "compute_lipid_block"
          [] choice = <<"6">> -> "compute_insulin_ir_block"
          [] choice = <<"7">> -> "compute_pk_block"
          [] OTHER -> "compute_all"

run_block(name, s) ==
    CASE name = "compute_basic_block" -> compute_basic_block(s)
      [] name = "compute_energy_block" -> compute_energy_block(s)
      [] name = "compute_cardio_block" -> compute_cardio_block(s)
      [] name = "compute_renal_block" -> compute_renal_block(s)
      [] name = "compute_lipid_block" -> compute_lipid_block(s)
      [] name = "compute_insulin_ir_block" -> compute_insulin_ir_block(s)
      [] name = "compute_pk_block" -> compute_pk_block(s)
      [] name = "compute_all" -> compute_all(s)

\* main() has been called: nothing read, no record built
MainInit ==
    /\ self = NoneV
    /\ sex_arg = <<>>
    /\ call = [m |-> "main", a |-> <<>>]
    /\ ret = NoneV
    /\ pc = "main_required"
    /\ optional = FALSE
    /\ depth = 0
    /\ entry = <<>>

\* a numeric prompt of main ends in RecursionError
main_prompt_raises ==
    /\ pc \in {"main_required", "main_optional"}
    /\ ret' = Raise("RecursionError")
    /\ pc' = "raised"
    /\ UNCHANGED <<sex_arg, self, call, optional, depth, entry>>

\* w, h, age = _float_input(...) three times
main_required ==
    /\ pc = "main_required"
    /\ \E w \in Weights, h \in Heights, age \in Ages :
         call' = [call EXCEPT !.a = <<w, h, age>>]
    /\ pc' = "main_sex"
    /\ UNCHANGED <<sex_arg, self, ret, optional, depth, entry>>

\* sex = input("Sex (male/female): ").strip().lower() or "male"
main_sex ==
    /\ pc = "main_sex"
    /\ \E line \in Answers(MaxSexLen) :
         /\ entry' = line
         /\ call' = [call EXCEPT !.a = Append(@, sex_answer(line))]
    /\ pc' = "main_optional"
    /\ optional' = TRUE
    /\ UNCHANGED <<sex_arg, self, ret, depth>>

\* waist ... ethanol = _float_input(..., optional=True)
main_optional ==
    /\ pc = "main_optional"
    /\ \E fill \in Fills : call' = [call EXCEPT !.a = Append(@, fill)]
    /\ pc' = "main_construct"
    /\ optional' = FALSE
    /\ UNCHANGED <<sex_arg, self, ret, depth, entry>>

\* bio = BioMax(weight_kg=w, height_m=h, age_yrs=age, sex=sex, ...)
main_construct ==
    /\ pc = "main_construct"
    /\ self' = BioMax__init__(MkArgs(call.a[1], call.a[2], call.a[3], call.a[4],
                                     All(call.a[5])))
    /\ sex_arg' = call.a[4]
    /\ pc' = "main_choice"
    /\ UNCHANGED <<call, ret, optional, depth, entry>>

\* choice = input("Enter choice (1-8): ").strip() or "8"
main_choice ==
    /\ pc = "main_choice"
    /\ \E line \in {<<>>, <<" ">>, <<"1">>, <<"2">>, <<"3">>, <<"4">>, <<"5">>, <<"6">>,
                    <<"7">>, <<"8">>, <<"9">>} :
         call' = [m |-> chosen_block(line), a |-> <<>>]
    /\ pc' = "main_compute"
    /\ UNCHANGED <<sex_arg, self, ret, optional, depth, entry>>

\* out = bio.compute_...(); the results loop prints out unless the block raised
main_compute ==
    /\ pc = "main_compute"
    /\ \A out \in {run_block(call.m, self)} :
         /\ ret' = out
         /\ pc' = IF IsRaise(out) THEN "raised" ELSE "printed"
    /\ UNCHANGED <<sex_arg, self, call, optional, depth, entry>>

MainNext ==
    \/ main_prompt_raises \/ main_required \/ main_sex \/ main_optional
    \/ main_construct \/ main_choice \/ main_compute

MainSpec == MainInit /\ [][MainNext]_vars

\* the record has been built
BioBuilt == call.m # "main"

\* the labels of the report under which a sex-dependent formula is printed
SexLabel ==
    [l \in {"IBW (Devine kg)", "RFM", "LBM (James)", "BMR (Mifflin)",
            "BMR (Harris-Benedict)", "Cockcroft-Gault CrCl (mL/min)",
            "MDRD eGFR (mL/min/1.73m^2)"} |->
        CASE l = "IBW (Devine kg)" -> "ibw_devine"
          [] l = "RFM" -> "relative_fat_mass"
          [] l = "LBM (James)" -> "lbm_james"
          [] l = "BMR (Mifflin)" -> "bmr_mifflin"
          [] l = "BMR (Harris-Benedict)" -> "bmr_harris_benedict"
          [] l = "Cockcroft-Gault CrCl (mL/min)" -> "cockcroft_gault"
          [] l = "MDRD eGFR (mL/min/1.73m^2)" -> "mdrd_egfr"]

\* the answer to the sex prompt is not blank and does not start with m or M
NonBlankNotM ==
    /\ strip(entry) # <<>>
    /\ strip(entry)[1] \notin {"m", "M"}

\* C11: in main, a blank answer to the sex prompt builds the record with sex
\* "male" and every sex-dependent formula of the printed report shows its
\* male-branch result; a record on the female branch, and a female-branch
\* result in the report, come only from a non-blank answer that does not start
\* with m or M; the empty sex string never reaches the record.
C11_BlankSexIsMale ==
    /\ BioBuilt =>
         /\ sex_arg # <<>> /\ self.sex # <<>>
         /\ strip(entry) = <<>> => sex_arg = Male /\ self.sex = Male
         /\ ~startswith(self.sex, "m") => NonBlankNotM
    /\ pc = "printed" =>
         \A l \in DOMAIN ret.e \cap DOMAIN SexLabel :
            /\ ret.e[l] = SexFormula(SexLabel[l],
                              WithSex(self, IF NonBlankNotM THEN Female ELSE Male))
            /\ IsValue(ret.e[l]) =>
                 ret.e[l] # SexFormula(SexLabel[l],
                                WithSex(self, IF NonBlankNotM THEN Male ELSE Female))

\* a line of one blank was answered and the full report shows the male BMR
C11_Witness ==
    /\ pc = "printed"
    /\ call.m = "compute_all"
    /\ entry = <<" ">>
    /\ self.sex = Male
    /\ IsValue(ret.e["BMR (Mifflin)"])
    /\ ret.e["BMR (Mifflin)"] = bmr_mifflin(WithSex(self, Male))

====
